---------------------------- MODULE Spec2Model ----------------------------
(***************************************************************************)
(* Model of src/src/vuefire/rtdb.ts: the $rtdbBind / $rtdbUnbind methods   *)
(* the plugin installs on every component instance, and the mixin hooks    *)
(* (beforeCreate, created, beforeDestroy) that drive them.                 *)
(*                                                                         *)
(* One component instance is modelled.  JavaScript runs each method and    *)
(* hook to completion on one thread, so each is one action; what happens   *)
(* inside a call (which handles and engines were invoked, in which order,  *)
(* with which arguments, and whether the call raised) is recorded in       *)
(* lastCall.                                                               *)
(***************************************************************************)
EXTENDS Integers, Sequences, FiniteSets, TLC

(***************************************************************************)
(* Bounds of the model.                                                    *)
(***************************************************************************)
\* Engine invocations (calls of bind) over the life of the instance.
MaxBinds == 2
\* The same for an instance of Neighbours: a rebind of one key beside a
\* bound second key takes three engine invocations.
MaxNeighbourBinds == 3
\* A stored handle may raise only while it has been invoked fewer times.
MaxInvoke == 1

(***************************************************************************)
(* JavaScript values.  Option values and reset arguments are strings:      *)
(* "true", "false", "undefined", a literal, or the name of a function.     *)
(***************************************************************************)
Keys == {"a", "b"}
Paths == {"p1", "p2"}

\* database.Reference and database.Query: a query is made from a reference
\* and keeps it in .ref; a reference's .ref is itself.
Reference(p) == [kind |-> "Reference", path |-> p]
Query(p) == [kind |-> "Query", path |-> p]
Sources == {Reference("p1"), Query("p2")}

getRef(refOrQuery) == Reference(refOrQuery.path)

ResetFunctions == {"fnArray"}
IsFunction(v) == v \in ResetFunctions
\* JavaScript truthiness of an option value.
Truthy(v) == v \notin {"false", "undefined"}

\* Values of a local property of the component.
EmptyArray == [shape |-> "array", data |-> "empty"]
EmptyObject == [shape |-> "object", data |-> "empty"]
NullValue == [shape |-> "null", data |-> "null"]
IsArray(v) == v.shape = "array"

(***************************************************************************)
(* A JavaScript object used as a map: its own properties in creation       *)
(* order (the order for-in visits them).                                   *)
(***************************************************************************)
EmptyMap == << >>
Has(m, k) == \E i \in 1..Len(m) : m[i].key = k
Get(m, k) == m[CHOOSE i \in 1..Len(m) : m[i].key = k].val
Set(m, k, v) ==
  IF Has(m, k)
    THEN [i \in 1..Len(m) |-> IF m[i].key = k THEN [key |-> k, val |-> v] ELSE m[i]]
    ELSE Append(m, [key |-> k, val |-> v])
DeleteKey(m, k) == SelectSeq(m, LAMBDA e : e.key # k)
KeysOf(m) == {m[i].key : i \in 1..Len(m)}

\* Object.assign with the sources in the wrong order: the fields of a win.
Assign_FirstWins(a, b) ==
  [f \in DOMAIN a \cup DOMAIN b |-> IF f \in DOMAIN a THEN a[f] ELSE b[f]]

\* Object.assign({}, a, b) on option records (functions from field names).
Assign(a, b) ==
  [f \in DOMAIN a \cup DOMAIN b |-> IF f \in DOMAIN b THEN b[f] ELSE a[f]]

NoOptions == [f \in {} |-> "undefined"]


(***************************************************************************)
(* Options.                                                                *)
(***************************************************************************)
\* rtdbOptions of ../core: the built-in defaults of the engines.
rtdbOptions ==
  [serialize |-> "createRecordFromRTDBSnapshot", reset |-> "true", wait |-> "false"]

defaultOptions ==
  [bindName |-> "$rtdbBind", unbindName |-> "$rtdbUnbind",
   serialize |-> rtdbOptions.serialize,
   reset |-> rtdbOptions.reset,
   wait |-> rtdbOptions.wait]

\* What a caller of $rtdbBind may give as its third argument; NoOptions
\* stands for an omitted argument (Object.assign skips undefined).
UserOptionsChoices ==
  {NoOptions,
   [reset |-> "offline"],
   [reset |-> "fnArray"],
   [wait |-> "true"],
   [wait |-> "true", reset |-> "fnArray"],
   [wait |-> "true", reset |-> "offline"],
   [wait |-> "undefined", reset |-> "false"]}

\* What a caller of $rtdbUnbind may give as reset; "undefined" is an
\* omitted argument.
ResetArguments == {"undefined", "false", "offline", "fnArray"}

BindCall(key, source, userOptions) ==
  [key |-> key, source |-> source, userOptions |-> userOptions]
UnbindCall(key, reset) == [key |-> key, reset |-> reset]

(***************************************************************************)
(* The components the instance may be an instance of.  A component fixes   *)
(* the options the plugin was installed with (omitted: defaultOptions),    *)
(* its firebase option (absent, a record, or a function returning the      *)
(* record), the initial values of its properties, and the $rtdbBind and    *)
(* $rtdbUnbind calls its methods make.                                     *)
(***************************************************************************)
Rebinder ==
  [pluginOptions |-> defaultOptions,
   firebase |-> [kind |-> "absent", map |-> EmptyMap],
   data |-> [k \in Keys |-> IF k = "a" THEN EmptyObject ELSE EmptyArray],
   binds |-> {BindCall("a", Reference("p1"), o) : o \in UserOptionsChoices}
               \cup {BindCall("a", Query("p2"), NoOptions)},
   unbinds |-> {UnbindCall("a", "undefined")}]

Waiter ==
  [pluginOptions |-> [wait |-> "true", serialize |-> "customSerialize"],
   firebase |-> [kind |-> "static", map |-> <<[key |-> "a", val |-> Query("p2")]>>],
   data |-> [k \in Keys |-> EmptyArray],
   binds |-> {BindCall("a", Reference("p1"), NoOptions),
              BindCall("a", Reference("p1"), [wait |-> "false"]),
              BindCall("b", Reference("p1"),
                       [reset |-> "fnArray", serialize |-> "perCallSerialize"])},
   unbinds |-> {UnbindCall("a", "offline")}]

Lister ==
  [pluginOptions |-> [reset |-> "false"],
   firebase |-> [kind |-> "producer",
                 map |-> <<[key |-> "b", val |-> Query("p2")],
                           [key |-> "a", val |-> Reference("p1")]>>],
   data |-> [k \in Keys |-> IF k = "a" THEN EmptyArray ELSE EmptyObject],
   binds |-> {BindCall("a", Query("p2"), NoOptions)},
   unbinds |-> {UnbindCall("a", "offline"), UnbindCall("b", "fnArray")}]

Components == {Rebinder, Waiter, Lister}

\* A component with two properties side by side: b is declared and bound
\* by the created hook, a is bound, rebound and unbound by calls.
Neighbours ==
  [pluginOptions |-> NoOptions,
   firebase |-> [kind |-> "static", map |-> <<[key |-> "b", val |-> Query("p2")]>>],
   data |-> [k \in Keys |-> IF k = "a" THEN EmptyArray ELSE EmptyObject],
   binds |-> {BindCall("a", Reference("p1"), NoOptions)},
   unbinds |-> {UnbindCall("a", "undefined")}]

VARIABLES
  component,        \* what the instance is an instance of
  lifecycle,        \* "uninit", "precreated", "active", "destroyed"
  registry,         \* "undefined", "live", "null": what the three fields hold
  firebaseSources,  \* this._firebaseSources, while registry = "live"
  firebaseUnbinds,  \* this._firebaseUnbinds: key -> index into calls
  firebaseRefs,     \* this.$firebaseRefs
  vm,               \* the local properties of the instance
  calls,            \* one record per call of bind: its engine, handle, promise
  lastCall          \* the most recent method or hook call and what it did

vars ==
  <<component, lifecycle, registry, firebaseSources,
    firebaseUnbinds, firebaseRefs, vm, calls, lastCall>>

globalOptions == Assign(defaultOptions, component.pluginOptions)

(***************************************************************************)
(* The state a call works on, threaded through the statements of a call.   *)
(* events lists the handles and engines the call has invoked so far;       *)
(* raised is "none" until a statement raises.                              *)
(***************************************************************************)
Entry ==
  [registry |-> registry, sources |-> firebaseSources, unbinds |-> firebaseUnbinds,
   refs |-> firebaseRefs, vm |-> vm, calls |-> calls, events |-> << >>,
   raised |-> "none"]

Raise(st, error) == [st EXCEPT !.raised = error]

(***************************************************************************)
(* The engines of ../core (rtdbBindAsArray, rtdbBindAsObject) and the      *)
(* unsubscribe handles they return.                                        *)
(***************************************************************************)
\* What a handle leaves in the local property, given its reset argument.
ResetValue(mode, reset, current) ==
  IF reset = "false" THEN current
  ELSE IF reset = "fnArray" THEN [shape |-> "array", data |-> "fnArray"]
  ELSE IF reset \in {"true", "undefined"}
    THEN (IF mode = "bindAsArray" THEN EmptyArray ELSE NullValue)
  ELSE [shape |-> "string", data |-> reset]

\* Invoking handle h with reset: it detaches the listener and resets the
\* property, or raises before doing either.
Unsubscribe(st, h, reset, raises) ==
  LET c == st.calls[h]
      ev == [type |-> "unsubscribe", id |-> h, key |-> c.key, arg |-> reset,
             raised |-> raises]
      st1 == [st EXCEPT !.events = Append(@, ev), !.calls[h].invoked = @ + 1]
  IN IF raises THEN Raise(st1, "HandleError")
     ELSE [st1 EXCEPT !.calls[h].detached = TRUE,
                      !.vm[c.key] = ResetValue(c.mode, reset, @)]

\* Invoking an engine: it subscribes and returns a handle, or raises.
Engine(st, mode, key, source, options, raises) ==
  LET id == Len(st.calls) + 1
      ev == [type |-> mode, id |-> id, key |-> key, source |-> source,
             options |-> options, raised |-> raises]
      c == [key |-> key, source |-> source, mode |-> mode,
            returned |-> ~raises, invoked |-> 0, detached |-> FALSE,
            promise |-> "pending"]
  IN [st EXCEPT !.events = Append(@, ev), !.calls = Append(@, c)]

(***************************************************************************)
(* rtdb.ts                                                                 *)
(***************************************************************************)
\* bind calling the engine outside the promise executor: an exception of
\* the engine leaves bind.
bind_EngineOutsideExecutor(st, key, source, options, engineRaises) ==
  LET id == Len(st.calls) + 1
      mode == IF IsArray(st.vm[key]) THEN "bindAsArray" ELSE "bindAsObject"
      st1 == Engine(st, mode, key, source, options, engineRaises)
  IN IF engineRaises
       THEN Raise(st1, "EngineError")
       ELSE [st1 EXCEPT !.unbinds = Set(@, key, id)]

\* bind choosing the engine by the kind of source, not by the property.
bind_BySource(st, key, source, options, engineRaises) ==
  LET id == Len(st.calls) + 1
      mode == IF source.kind = "Query" THEN "bindAsArray" ELSE "bindAsObject"
      st1 == Engine(st, mode, key, source, options, engineRaises)
  IN IF engineRaises
       THEN [st1 EXCEPT !.calls[id].promise = "rejected"]
       ELSE [st1 EXCEPT !.unbinds = Set(@, key, id)]

\* bind(vm, key, source, options): the promise executor runs at once; an
\* exception of the executor rejects the promise and bind returns it.
bind(st, key, source, options, engineRaises) ==
  LET id == Len(st.calls) + 1
      mode == IF IsArray(st.vm[key]) THEN "bindAsArray" ELSE "bindAsObject"
      st1 == Engine(st, mode, key, source, options, engineRaises)
  IN IF engineRaises
       THEN [st1 EXCEPT !.calls[id].promise = "rejected"]
       ELSE [st1 EXCEPT !.unbinds = Set(@, key, id)]

\* unbind deleting the entries before it invokes the handle.
unbind_DeletesFirst(st, key, reset, handleRaises) ==
  IF st.registry # "live" \/ ~Has(st.unbinds, key)
    THEN Raise(st, "TypeError")
    ELSE LET h == Get(st.unbinds, key)
             st1 == [st EXCEPT !.sources = DeleteKey(@, key),
                               !.unbinds = DeleteKey(@, key)]
         IN Unsubscribe(st1, h, reset, handleRaises)

\* unbind emptying the two mappings instead of deleting one key.
unbind_WipesMappings(st, key, reset, handleRaises) ==
  IF st.registry # "live" \/ ~Has(st.unbinds, key)
    THEN Raise(st, "TypeError")
    ELSE LET st1 == Unsubscribe(st, Get(st.unbinds, key), reset, handleRaises)
         IN IF st1.raised # "none" THEN st1
            ELSE [st1 EXCEPT !.sources = EmptyMap, !.unbinds = EmptyMap]

\* unbind that returns silently when no handle is stored under key.
unbind_Silent(st, key, reset, handleRaises) ==
  IF st.registry # "live" \/ ~Has(st.unbinds, key)
    THEN st
    ELSE LET st1 == Unsubscribe(st, Get(st.unbinds, key), reset, handleRaises)
         IN IF st1.raised # "none" THEN st1
            ELSE [st1 EXCEPT !.sources = DeleteKey(@, key),
                             !.unbinds = DeleteKey(@, key)]

\* unbind(vm, key, reset)
unbind(st, key, reset, handleRaises) ==
  IF st.registry # "live" \/ ~Has(st.unbinds, key)
    THEN Raise(st, "TypeError")
    ELSE LET st1 == Unsubscribe(st, Get(st.unbinds, key), reset, handleRaises)
         IN IF st1.raised # "none" THEN st1
            ELSE [st1 EXCEPT !.sources = DeleteKey(@, key),
                             !.unbinds = DeleteKey(@, key)]

\* $rtdbUnbind that forgets to pass reset on.
rtdbUnbind_DropsReset(st, key, reset, handleRaises) ==
  unbind(st, key, "undefined", handleRaises)

\* this.$rtdbUnbind(key, reset)
rtdbUnbind(st, key, reset, handleRaises) == unbind(st, key, reset, handleRaises)

\* The rebind policy without the wait branch.
RebindReset_Verbatim(options) == options.reset

\* The rebind policy forcing true, not false, under wait.
RebindReset_ForcesTrue(options) ==
  IF Truthy(options.wait)
    THEN (IF IsFunction(options.reset) THEN options.reset ELSE "true")
    ELSE options.reset

\* The reset argument a rebind hands to $rtdbUnbind (lines 178-182).
RebindReset(options) ==
  IF Truthy(options.wait)
    THEN (IF IsFunction(options.reset) THEN options.reset ELSE "false")
    ELSE options.reset

\* $rtdbBind that binds the new source first and tears down afterwards.
rtdbBind_BindsFirst(st, key, source, userOptions, handleRaises, engineRaises) ==
  LET options == Assign(globalOptions, userOptions)
      rebind == st.registry = "live" /\ Has(st.unbinds, key)
      st1 == IF st.registry # "live" THEN Raise(st, "TypeError")
             ELSE bind(st, key, source, options, engineRaises)
      st2 == IF st1.raised = "none" /\ rebind
               THEN rtdbUnbind(st1, key, RebindReset(options), handleRaises)
               ELSE st1
  IN IF st2.raised # "none" THEN st2
     ELSE [st2 EXCEPT !.sources = Set(@, key, source),
                      !.refs = Set(@, key, getRef(source))]

\* $rtdbBind choosing the engine by the shape the property had when the
\* call was made, before the teardown.
rtdbBind_ShapeAtEntry(st, key, source, userOptions, handleRaises, engineRaises) ==
  LET options == Assign(globalOptions, userOptions)
      st1 == IF st.registry # "live" THEN Raise(st, "TypeError")
             ELSE IF Has(st.unbinds, key)
               THEN rtdbUnbind(st, key, RebindReset(options), handleRaises)
               ELSE st
  IN IF st1.raised # "none" THEN st1
     ELSE LET st2 == bind([st1 EXCEPT !.vm = st.vm], key, source, options,
                          engineRaises)
          IN [st2 EXCEPT !.vm = st1.vm,
                         !.sources = Set(@, key, source),
                         !.refs = Set(@, key, getRef(source))]

\* $rtdbBind without line 188, the write of _firebaseSources.
rtdbBind_NoSource(st, key, source, userOptions, handleRaises, engineRaises) ==
  LET options == Assign(globalOptions, userOptions)
      st1 == IF st.registry # "live" THEN Raise(st, "TypeError")
             ELSE IF Has(st.unbinds, key)
               THEN rtdbUnbind(st, key, RebindReset(options), handleRaises)
               ELSE st
  IN IF st1.raised # "none" THEN st1
     ELSE LET st2 == bind(st1, key, source, options, engineRaises)
          IN [st2 EXCEPT !.refs = Set(@, key, getRef(source))]

\* this.$rtdbBind(key, source, userOptions)
rtdbBind(st, key, source, userOptions, handleRaises, engineRaises) ==
  LET options == Assign(globalOptions, userOptions)
      st1 == IF st.registry # "live" THEN Raise(st, "TypeError")
             ELSE IF Has(st.unbinds, key)
               THEN rtdbUnbind(st, key, RebindReset(options), handleRaises)
               ELSE st
  IN IF st1.raised # "none" THEN st1
     ELSE LET st2 == bind(st1, key, source, options, engineRaises)
          IN [st2 EXCEPT !.sources = Set(@, key, source),
                         !.refs = Set(@, key, getRef(source))]

\* The mixin's beforeCreate hook.
beforeCreate(st) ==
  [st EXCEPT !.registry = "live", !.refs = EmptyMap, !.sources = EmptyMap,
             !.unbinds = EmptyMap]

\* The loop of the created hook over the keys of bindings, in order; the
\* engine raises for the keys in failing, and the handle a key already has
\* (from a $rtdbBind made before the hook) raises for the keys in raising:
\* that exception leaves the loop and the hook.
RECURSIVE CreatedLoop(_, _, _, _, _)
CreatedLoop(st, bindings, i, failing, raising) ==
  IF i > Len(bindings) THEN st
  ELSE LET b == bindings[i]
           st1 == rtdbBind(st, b.key, b.val, globalOptions,
                           Has(st.unbinds, b.key) /\ b.key \in raising,
                           b.key \in failing)
       IN IF st1.raised # "none" THEN st1
          ELSE CreatedLoop(st1, bindings, i + 1, failing, raising)

\* The created hook without the call of a firebase option that is a
\* function: for-in finds no key in the function.
created_RecordOnly(st, option, failing, raising) ==
  IF option.kind # "static" THEN st
  ELSE CreatedLoop(st, option.map, 1, failing, raising)

\* The mixin's created hook.
created(st, option, failing, raising) ==
  IF option.kind = "absent" THEN st
  ELSE CreatedLoop(st, option.map, 1, failing, raising)

\* The loop of the beforeDestroy hook over the keys of _firebaseUnbinds, in
\* order, each handle called with no argument; the handle at position
\* raiseAt raises (0: none does).
RECURSIVE DestroyLoop(_, _, _)
DestroyLoop(st, i, raiseAt) ==
  IF i > Len(st.unbinds) THEN st
  ELSE LET st1 == Unsubscribe(st, st.unbinds[i].val, "undefined", i = raiseAt)
       IN IF st1.raised # "none" THEN st1
          ELSE DestroyLoop(st1, i + 1, raiseAt)

\* The mixin's beforeDestroy hook.
beforeDestroy(st, raiseAt) ==
  LET st1 == DestroyLoop(st, 1, raiseAt)
  IN IF st1.raised # "none" THEN st1
     ELSE [st1 EXCEPT !.registry = "null", !.sources = EmptyMap,
                      !.unbinds = EmptyMap, !.refs = EmptyMap]

(***************************************************************************)
(* The state machine.                                                      *)
(***************************************************************************)
NoSource == [kind |-> "none", path |-> "none"]

Call(op, key, source, userOptions, reset) ==
  [op |-> op, key |-> key, source |-> source, userOptions |-> userOptions,
   reset |-> reset]

\* The call ends in state st: the instance takes it over and lastCall
\* records the call.
Commit(st, call) ==
  /\ registry' = st.registry
  /\ firebaseSources' = st.sources
  /\ firebaseUnbinds' = st.unbinds
  /\ firebaseRefs' = st.refs
  /\ vm' = st.vm
  /\ calls' = st.calls
  /\ lastCall' = [call |-> call, events |-> st.events, raised |-> st.raised]

\* Whether the handle stored under key may raise when it is invoked next.
MayRaise(key) ==
  /\ registry = "live"
  /\ Has(firebaseUnbinds, key)
  /\ calls[Get(firebaseUnbinds, key)].invoked < MaxInvoke

\* The engine invocations the created hook is still to make: one for each
\* declared key, while the hook has not run.
Pending ==
  IF lifecycle \in {"uninit", "precreated"} THEN Len(component.firebase.map) ELSE 0

\* The bound on engine invocations for the instance.
BindCap == IF component = Neighbours THEN MaxNeighbourBinds ELSE MaxBinds

Init ==
  /\ component \in Components
  /\ lifecycle = "uninit"
  /\ registry = "undefined"
  /\ firebaseSources = EmptyMap
  /\ firebaseUnbinds = EmptyMap
  /\ firebaseRefs = EmptyMap
  /\ vm = component.data
  /\ calls = << >>
  /\ lastCall = [call |-> Call("install", "-", NoSource, NoOptions, "undefined"),
                 events |-> << >>, raised |-> "none"]

BeforeCreate ==
  /\ lifecycle = "uninit"
  /\ lifecycle' = "precreated"
  /\ Commit(beforeCreate(Entry),
            Call("beforeCreate", "-", NoSource, NoOptions, "undefined"))
  /\ UNCHANGED component

Created ==
  /\ lifecycle = "precreated"
  /\ lifecycle' = "active"
  /\ \E failing \in SUBSET KeysOf(component.firebase.map),
        raising \in SUBSET {k \in KeysOf(component.firebase.map) : MayRaise(k)} :
       Commit(created(Entry, component.firebase, failing, raising),
              Call("created", "-", NoSource, NoOptions, "undefined"))
  /\ UNCHANGED component

RtdbBind ==
  /\ Len(calls) + Pending < BindCap
  /\ \E c \in component.binds, handleRaises \in BOOLEAN, engineRaises \in BOOLEAN :
       /\ handleRaises => (MayRaise(c.key) /\ ~engineRaises)
       /\ engineRaises => registry = "live"
       /\ Commit(rtdbBind(Entry, c.key, c.source, c.userOptions, handleRaises,
                          engineRaises),
                 Call("rtdbBind", c.key, c.source, c.userOptions, "undefined"))
  /\ UNCHANGED <<component, lifecycle>>

RtdbUnbind ==
  /\ \E c \in component.unbinds, handleRaises \in BOOLEAN :
       /\ handleRaises => MayRaise(c.key)
       /\ Commit(rtdbUnbind(Entry, c.key, c.reset, handleRaises),
                 Call("rtdbUnbind", c.key, NoSource, NoOptions, c.reset))
  /\ UNCHANGED <<component, lifecycle>>

BeforeDestroy ==
  /\ lifecycle = "active"
  /\ lifecycle' = "destroyed"
  /\ \E raiseAt \in 0..Len(firebaseUnbinds) :
       /\ raiseAt > 0 => MayRaise(firebaseUnbinds[raiseAt].key)
       /\ Commit(beforeDestroy(Entry, raiseAt),
                 Call("beforeDestroy", "-", NoSource, NoOptions, "undefined"))
  /\ UNCHANGED component

\* The engine of call h delivers a value: the promise is fulfilled if it was
\* pending, and the property is written unless the handle has detached it.
EngineValue ==
  \E h \in 1..Len(calls) :
    /\ calls[h].returned
    /\ LET c == calls[h]
           value == [shape |-> IF c.mode = "bindAsArray" THEN "array" ELSE "object",
                     data |-> c.source.path]
           st == Entry
           st1 == [st EXCEPT !.calls[h].promise = IF @ = "pending" THEN "fulfilled" ELSE @]
           st2 == IF c.detached THEN st1 ELSE [st1 EXCEPT !.vm[c.key] = value]
       IN Commit(st2, Call("EngineValue", c.key, c.source, NoOptions, "undefined"))
    /\ UNCHANGED <<component, lifecycle>>

\* The engine of call h reports a synchronization error through reject.
EngineError ==
  \E h \in 1..Len(calls) :
    /\ calls[h].returned
    /\ ~calls[h].detached
    /\ calls[h].promise = "pending"
    /\ Commit([Entry EXCEPT !.calls[h].promise = "rejected"],
              Call("EngineError", calls[h].key, calls[h].source, NoOptions, "undefined"))
    /\ UNCHANGED <<component, lifecycle>>

Next ==
  \/ BeforeCreate
  \/ Created
  \/ RtdbBind
  \/ RtdbUnbind
  \/ BeforeDestroy
  \/ EngineValue
  \/ EngineError

Spec == Init /\ [][Next]_vars

\* The same program, for an instance of Neighbours.
InitNeighbours ==
  /\ component = Neighbours
  /\ lifecycle = "uninit"
  /\ registry = "undefined"
  /\ firebaseSources = EmptyMap
  /\ firebaseUnbinds = EmptyMap
  /\ firebaseRefs = EmptyMap
  /\ vm = component.data
  /\ calls = << >>
  /\ lastCall = [call |-> Call("install", "-", NoSource, NoOptions, "undefined"),
                 events |-> << >>, raised |-> "none"]

SpecNeighbours == InitNeighbours /\ [][Next]_vars

(***************************************************************************)
(* Properties.  A property about one call reads the call from lastCall (in *)
(* the state the call ends in) and, where it needs the state the call      *)
(* started in, is an action property: unprimed variables are the instance  *)
(* before the call, lastCall' is the call.                                 *)
(***************************************************************************)
EngineTypes == {"bindAsArray", "bindAsObject"}

\* The positions in events of invocations of handle h, and of engines.
HandleEvents(events, h) ==
  {i \in 1..Len(events) : events[i].type = "unsubscribe" /\ events[i].id = h}
EngineEvents(events) ==
  {i \in 1..Len(events) : events[i].type \in EngineTypes}

\* Key k has a stored unsubscribe handle.
Bound(k) == registry = "live" /\ Has(firebaseUnbinds, k)

\* The step is a call of op on key k.
IsCall(op, k) == lastCall'.call.op = op /\ lastCall'.call.key = k

\* C1: a $rtdbBind on a key that has a stored handle invokes that handle
\* exactly once, and every engine the call invokes comes after it.
C1_TeardownBeforeEngine ==
  [][\A k \in Keys :
       (Bound(k) /\ IsCall("rtdbBind", k)) =>
         LET h == Get(firebaseUnbinds, k)
             ev == lastCall'.events
         IN /\ Cardinality(HandleEvents(ev, h)) = 1
            /\ \A i \in HandleEvents(ev, h), j \in EngineEvents(ev) : i < j]_vars

\* A rebind happened: the old handle was invoked, then the new engine.
C1_Witness ==
  /\ lastCall.call.op = "rtdbBind"
  /\ Len(lastCall.events) = 2
  /\ lastCall.events[1].type = "unsubscribe"
  /\ lastCall.events[2].type \in EngineTypes
  /\ lastCall.events[1].id # lastCall.events[2].id

\* The effective options of the last $rtdbBind call.
LastOptions == Assign(globalOptions, lastCall.call.userOptions)

\* The last call was a rebind: a $rtdbBind that began with a teardown.
LastWasRebind ==
  /\ lastCall.call.op = "rtdbBind"
  /\ Len(lastCall.events) >= 1
  /\ lastCall.events[1].type = "unsubscribe"

\* C2: the reset argument of a rebind's teardown follows the table of the
\* rebind policy: wait false, the reset option itself; wait true and reset a
\* function, that function; wait true and reset anything else, false.
C2_RebindPolicyTable ==
  LastWasRebind =>
    LET o == LastOptions
        arg == lastCall.events[1].arg
    IN /\ o.wait = "false" => arg = o.reset
       /\ (o.wait = "true" /\ IsFunction(o.reset)) => arg = o.reset
       /\ (o.wait = "true" /\ ~IsFunction(o.reset)) => arg = "false"

\* A rebind under wait with a literal reset: the handle was given false.
C2_Witness ==
  /\ LastWasRebind
  /\ LastOptions.wait = "true"
  /\ LastOptions.reset = "offline"
  /\ lastCall.events[1].arg = "false"

\* C3: after $rtdbUnbind returns on a bound key, the key is in none of the
\* three mappings.
C3_UnbindClearsAllThree ==
  (lastCall.call.op = "rtdbUnbind" /\ lastCall.raised = "none") =>
    /\ ~Has(firebaseSources, lastCall.call.key)
    /\ ~Has(firebaseUnbinds, lastCall.call.key)
    /\ ~Has(firebaseRefs, lastCall.call.key)

\* C4: $rtdbUnbind on a bound key invokes the handle stored under that key
\* once, with the caller's reset argument, and invokes nothing else.
C4_UnbindInvokesStoredHandle ==
  [][\A k \in Keys :
       (Bound(k) /\ IsCall("rtdbUnbind", k)) =>
         /\ Len(lastCall'.events) = 1
         /\ lastCall'.events[1].type = "unsubscribe"
         /\ lastCall'.events[1].id = Get(firebaseUnbinds, k)
         /\ lastCall'.events[1].arg = lastCall'.call.reset]_vars

\* An unbind with a literal reset, made while another key was bound too.
C4_Witness ==
  /\ lastCall.call.op = "rtdbUnbind"
  /\ lastCall.call.reset = "offline"
  /\ Len(lastCall.events) = 1
  /\ lastCall.events[1].arg = "offline"
  /\ \E k \in Keys : k # lastCall.call.key /\ Bound(k)

\* The step is the beforeDestroy hook of the active instance.
IsDestroy == lifecycle = "active" /\ lastCall'.call.op = "beforeDestroy"

\* C5: destruction invokes the handle of every key stored when it starts,
\* each once, and then discards the three mappings.
C5_DestroyTearsDownAll ==
  [][IsDestroy =>
       /\ \A i \in 1..Len(firebaseUnbinds) :
            Cardinality(HandleEvents(lastCall'.events, firebaseUnbinds[i].val)) = 1
       /\ registry' = "null"
       /\ firebaseSources' = EmptyMap
       /\ firebaseUnbinds' = EmptyMap
       /\ firebaseRefs' = EmptyMap]_vars

\* C6: when a handle raises during destruction, the hook raises and the
\* handles of all the keys stored when it started are invoked all the same.
C6_RemainingHandlesStillInvoked ==
  [][(IsDestroy /\ \E i \in 1..Len(lastCall'.events) : lastCall'.events[i].raised) =>
       /\ lastCall'.raised # "none"
       /\ \A i \in 1..Len(firebaseUnbinds) :
            HandleEvents(lastCall'.events, firebaseUnbinds[i].val) # {}]_vars

\* The entries stored under key k in map m.
Entries(m, k) == {i \in 1..Len(m) : m[i].key = k}

\* The last call was a $rtdbBind that returned and whose engine returned a
\* handle.
LastBindReturned ==
  /\ lastCall.call.op = "rtdbBind"
  /\ lastCall.raised = "none"
  /\ Len(lastCall.events) >= 1
  /\ lastCall.events[Len(lastCall.events)].type \in EngineTypes
  /\ ~lastCall.events[Len(lastCall.events)].raised

\* C7: when $rtdbBind returns and its engine did not fail, each mapping has
\* one entry for the key: the given source, the handle the engine of this
\* call returned, and the reference of the given source.
C7_BindReturnsWithEntry ==
  LastBindReturned =>
    LET k == lastCall.call.key
        source == lastCall.call.source
        engine == lastCall.events[Len(lastCall.events)]
    IN /\ Cardinality(Entries(firebaseSources, k)) = 1
       /\ Cardinality(Entries(firebaseUnbinds, k)) = 1
       /\ Cardinality(Entries(firebaseRefs, k)) = 1
       /\ Get(firebaseSources, k) = source
       /\ Get(firebaseUnbinds, k) = engine.id
       /\ calls[engine.id].key = k
       /\ calls[engine.id].source = source
       /\ Get(firebaseRefs, k) = [kind |-> "Reference", path |-> source.path]

\* A rebind to another source, a query, returned while the promise of the
\* bind it replaced was still pending.
C7_Witness ==
  /\ LastWasRebind
  /\ LastBindReturned
  /\ lastCall.call.source.kind = "Query"
  /\ calls[lastCall.events[1].id].source # lastCall.call.source
  /\ calls[lastCall.events[1].id].promise = "pending"

\* C8: on the active instance, $rtdbUnbind of a key with no stored handle
\* raises, invokes nothing and leaves the three mappings as they were.
C8_UnbindUnboundRaises ==
  [][\A k \in Keys :
       (lifecycle = "active" /\ ~Bound(k) /\ IsCall("rtdbUnbind", k)) =>
         /\ lastCall'.raised # "none"
         /\ lastCall'.events = << >>
         /\ UNCHANGED <<registry, firebaseSources, firebaseUnbinds, firebaseRefs>>]_vars

\* An unbind raised on the active instance for a key that had been bound and
\* unbound before.
C8_Witness ==
  /\ lifecycle = "active"
  /\ lastCall.call.op = "rtdbUnbind"
  /\ lastCall.raised = "TypeError"
  /\ \E h \in 1..Len(calls) : calls[h].key = lastCall.call.key /\ calls[h].detached

\* C9: after destruction, $rtdbBind invokes no engine and changes none of
\* the three mappings.
C9_NoBindAfterDestroy ==
  [][(lifecycle = "destroyed" /\ lastCall'.call.op = "rtdbBind") =>
       /\ EngineEvents(lastCall'.events) = {}
       /\ UNCHANGED <<registry, firebaseSources, firebaseUnbinds, firebaseRefs>>]_vars

\* The effective options of the call the step makes.
StepOptions == Assign(globalOptions, lastCall'.call.userOptions)

\* C10 as stated: a rebind under wait leaves the property as it was,
\* whatever the reset option is.
C10_WaitKeepsProperty ==
  [][\A k \in Keys :
       (Bound(k) /\ IsCall("rtdbBind", k) /\ StepOptions.wait = "true") =>
         vm'[k] = vm[k]]_vars

\* C10 amended: a rebind under wait whose reset option is not a function
\* leaves the property as it was.
C10_WaitKeepsPropertyUnlessFunction ==
  [][\A k \in Keys :
       (Bound(k) /\ IsCall("rtdbBind", k) /\ StepOptions.wait = "true"
          /\ ~IsFunction(StepOptions.reset)) =>
         vm'[k] = vm[k]]_vars

\* A rebind under wait with reset true returned, the new promise is pending
\* and the property still holds the data of the binding that was replaced.
C10_Witness ==
  /\ LastWasRebind
  /\ LastBindReturned
  /\ LastOptions.wait = "true"
  /\ LastOptions.reset = "true"
  /\ calls[Len(calls)].promise = "pending"
  /\ vm[lastCall.call.key].data = calls[lastCall.events[1].id].source.path

\* The engine that goes with the shape of a property value.
EngineFor(value) == IF value.shape = "array" THEN "bindAsArray" ELSE "bindAsObject"

\* The last call was a $rtdbBind that returned, so that it called bind.
LastCalledBind == lastCall.call.op = "rtdbBind" /\ lastCall.raised = "none"

\* C11: a call of bind invokes one engine, once: the collection engine when
\* the property is an array and the single-value engine otherwise, whatever
\* the source; the engine is given the key, the source, the promise of the
\* call and the effective options.  (No engine writes the property while it
\* is being invoked, so the property is still as bind found it.)
C11_OneEngineByShape ==
  LastCalledBind =>
    /\ Cardinality(EngineEvents(lastCall.events)) = 1
    /\ LET ev == lastCall.events[Len(lastCall.events)]
       IN /\ ev.type = EngineFor(vm[lastCall.call.key])
          /\ ev.key = lastCall.call.key
          /\ ev.source = lastCall.call.source
          /\ ev.id = Len(calls)
          /\ ev.options = LastOptions

\* bind chose the collection engine for an array bound to a plain
\* reference.
C11_Witness ==
  /\ LastCalledBind
  /\ lastCall.events[Len(lastCall.events)].type = "bindAsArray"
  /\ lastCall.call.source.kind = "Reference"
  /\ vm[lastCall.call.key].shape = "array"

\* The declared pairs of the firebase option.
Declared == component.firebase.map

\* The entry of key k in map m: the empty set when there is none.
EntryOf(m, k) == {m[i] : i \in Entries(m, k)}

\* The engine invocations among events, in order.
EnginesIn(events) == SelectSeq(events, LAMBDA e : e.type \in EngineTypes)

\* C12 as stated: the created hook calls $rtdbBind once for each declared
\* pair, in order, with the global options, and does not raise; afterwards
\* the source mapping and the reference mapping hold exactly the declared
\* keys with their sources.  Without a firebase option it invokes nothing
\* and the mappings are empty.
C12_CreatedBindsExactlyDeclared ==
  lastCall.call.op = "created" =>
    /\ lastCall.raised = "none"
    /\ Len(lastCall.events) = Len(Declared)
    /\ \A i \in 1..Len(Declared) :
         /\ lastCall.events[i].type \in EngineTypes
         /\ lastCall.events[i].key = Declared[i].key
         /\ lastCall.events[i].source = Declared[i].val
         /\ lastCall.events[i].options = globalOptions
         /\ Cardinality(Entries(firebaseSources, Declared[i].key)) = 1
         /\ Get(firebaseSources, Declared[i].key) = Declared[i].val
         /\ Get(firebaseRefs, Declared[i].key).path = Declared[i].val.path
         /\ ~lastCall.events[i].raised =>
              Get(firebaseUnbinds, Declared[i].key) = lastCall.events[i].id
    /\ KeysOf(firebaseSources) = KeysOf(Declared)
    /\ KeysOf(firebaseRefs) = KeysOf(Declared)
    /\ KeysOf(firebaseUnbinds) \subseteq KeysOf(Declared)

\* C12, amended: the created hook calls $rtdbBind for the declared pairs
\* in order, with the global options, one engine invocation per pair, until
\* all are bound or a call raises (the handle of a key bound before the hook
\* raised in the teardown); each pair reached is then in the source and
\* reference mappings with its declared source, and no other key's entries
\* have changed.  Without a firebase option nothing is invoked or changed.
C12_CreatedBindsDeclaredInOrder ==
  [][lastCall'.call.op = "created" =>
       LET E == EnginesIn(lastCall'.events)
           n == Len(lastCall'.events)
       IN /\ Len(E) <= Len(Declared)
          /\ \A i \in 1..Len(E) :
               /\ E[i].key = Declared[i].key
               /\ E[i].source = Declared[i].val
               /\ E[i].options = globalOptions
               /\ EntryOf(firebaseSources', E[i].key) = {Declared[i]}
               /\ Get(firebaseRefs', E[i].key).path = Declared[i].val.path
               /\ ~E[i].raised => Get(firebaseUnbinds', E[i].key) = E[i].id
          /\ lastCall'.raised = "none" => Len(E) = Len(Declared)
          /\ lastCall'.raised # "none" =>
               /\ Len(E) < Len(Declared)
               /\ Bound(Declared[Len(E) + 1].key)
               /\ lastCall'.events[n].type = "unsubscribe"
               /\ lastCall'.events[n].raised
          /\ \A k \in Keys \ {E[i].key : i \in 1..Len(E)} :
               /\ EntryOf(firebaseSources', k) = EntryOf(firebaseSources, k)
               /\ EntryOf(firebaseUnbinds', k) = EntryOf(firebaseUnbinds, k)
               /\ EntryOf(firebaseRefs', k) = EntryOf(firebaseRefs, k)]_vars

\* The created hook found a declared key bound by an earlier $rtdbBind, tore
\* that binding down and bound the declared source.
C12_Witness ==
  /\ lastCall.call.op = "created"
  /\ lastCall.raised = "none"
  /\ Len(lastCall.events) = 2
  /\ lastCall.events[1].type = "unsubscribe"
  /\ lastCall.events[2].type \in EngineTypes
  /\ lastCall.events[2].source = Declared[1].val
  /\ Get(firebaseSources, Declared[1].key) = Declared[1].val

\* C13: each of serialize, reset and wait is, in the options an engine is
\* given by $rtdbBind, the per-call value when the call has the field, else
\* the plugin's value when the plugin options have it, else the default.
C13_OptionsMerge ==
  LastCalledBind =>
    LET options == lastCall.events[Len(lastCall.events)].options
        user == lastCall.call.userOptions
        plugin == component.pluginOptions
    IN \A f \in {"serialize", "reset", "wait"} :
         options[f] = IF f \in DOMAIN user THEN user[f]
                      ELSE IF f \in DOMAIN plugin THEN plugin[f]
                      ELSE rtdbOptions[f]

\* A call whose options took wait from the call, serialize from the plugin
\* options and reset from the defaults.
C13_Witness ==
  /\ LastCalledBind
  /\ DOMAIN lastCall.call.userOptions = {"wait"}
  /\ "serialize" \in DOMAIN component.pluginOptions
  /\ "reset" \notin DOMAIN component.pluginOptions
  /\ lastCall.events[Len(lastCall.events)].options.wait = "false"
  /\ lastCall.events[Len(lastCall.events)].options.serialize = "customSerialize"
  /\ lastCall.events[Len(lastCall.events)].options.reset = "true"

\* The step is a $rtdbBind of a key with no stored handle whose engine
\* raises when it is invoked.
FirstBindEngineRaises ==
  /\ lastCall'.call.op = "rtdbBind"
  /\ registry = "live"
  /\ ~Has(firebaseUnbinds, lastCall'.call.key)
  /\ Len(lastCall'.events) >= 1
  /\ lastCall'.events[1].raised

\* C14: a failure of the engine of a first bind rejects the promise of that
\* bind and nothing else: when the engine raises, $rtdbBind returns, the
\* promise is rejected and no second engine is invoked; when the engine
\* calls reject, no engine is invoked; a settled promise never changes.
C14_FailureOnlyRejects ==
  [][/\ FirstBindEngineRaises =>
          /\ lastCall'.raised = "none"
          /\ Len(lastCall'.events) = 1
          /\ Len(calls') = Len(calls) + 1
          /\ calls'[Len(calls')].promise = "rejected"
     /\ lastCall'.call.op = "EngineError" =>
          /\ lastCall'.raised = "none"
          /\ lastCall'.events = << >>
          /\ Len(calls') = Len(calls)
     /\ \A h \in 1..Len(calls) :
          calls[h].promise # "pending" => calls'[h].promise = calls[h].promise]_vars

\* A first bind returned although its engine raised, and its promise is
\* rejected.
C14_Witness ==
  /\ LastCalledBind
  /\ Len(lastCall.events) = 1
  /\ lastCall.events[1].raised
  /\ calls[lastCall.events[1].id].promise = "rejected"

\* C15: on the active instance the unsubscribe mapping and the source
\* mapping have the same keys.
C15_SameKeys ==
  lifecycle = "active" => KeysOf(firebaseUnbinds) = KeysOf(firebaseSources)

\* C16: $rtdbBind and $rtdbUnbind on key k leave the entries of any other
\* key as they were and do not invoke its handle; a step of an engine
\* (a value, an error) changes none of the three mappings.
C16_OtherKeysUntouched ==
  [][/\ \A k \in Keys : \A other \in Keys \ {k} :
          (IsCall("rtdbBind", k) \/ IsCall("rtdbUnbind", k)) =>
            /\ EntryOf(firebaseSources', other) = EntryOf(firebaseSources, other)
            /\ EntryOf(firebaseUnbinds', other) = EntryOf(firebaseUnbinds, other)
            /\ EntryOf(firebaseRefs', other) = EntryOf(firebaseRefs, other)
            /\ \A i \in 1..Len(lastCall'.events) : lastCall'.events[i].key = k
     /\ lastCall'.call.op \in {"EngineValue", "EngineError"} =>
          UNCHANGED <<registry, firebaseSources, firebaseUnbinds, firebaseRefs>>]_vars

\* A rebind of one key returned while the other key is bound: the other
\* key has its entries and its handle has not been invoked.
C16_Witness ==
  /\ LastWasRebind
  /\ LastCalledBind
  /\ \E other \in Keys \ {lastCall.call.key} :
       /\ Bound(other)
       /\ Has(firebaseSources, other)
       /\ Has(firebaseRefs, other)
       /\ calls[Get(firebaseUnbinds, other)].invoked = 0

\* C17: no handle is invoked more than once, and once the instance is
\* destroyed every handle that was stored has been invoked.
C17_HandlesReleasedOnce ==
  \A h \in 1..Len(calls) :
    /\ calls[h].invoked <= 1
    /\ (lifecycle = "destroyed" /\ calls[h].returned) => calls[h].invoked = 1

\* The step is a rebind of key k in which the stored handle raises.
RebindHandleRaises(k) ==
  /\ Bound(k)
  /\ IsCall("rtdbBind", k)
  /\ Len(lastCall'.events) >= 1
  /\ lastCall'.events[1].type = "unsubscribe"
  /\ lastCall'.events[1].raised

\* C18: when the stored handle raises during a rebind, $rtdbBind raises, no
\* engine is invoked and the three mappings stay as they were.
C18_RaisingTeardownAborts ==
  [][\A k \in Keys :
       RebindHandleRaises(k) =>
         /\ lastCall'.raised # "none"
         /\ EngineEvents(lastCall'.events) = {}
         /\ Len(calls') = Len(calls)
         /\ UNCHANGED <<registry, firebaseSources, firebaseUnbinds, firebaseRefs>>]_vars

\* A rebind raised because the stored handle raised; the key is still bound
\* to the source it had.
C18_Witness ==
  /\ lastCall.call.op = "rtdbBind"
  /\ lastCall.raised = "HandleError"
  /\ Bound(lastCall.call.key)
  /\ Get(firebaseSources, lastCall.call.key) # lastCall.call.source

\* C19: on a rebind that returns, the engine invoked is the one for the
\* shape the teardown left in the property, also when that is not the shape
\* the property had when the call was made.
C19_ShapeAfterTeardown ==
  [][\A k \in Keys :
       (Bound(k) /\ IsCall("rtdbBind", k) /\ lastCall'.raised = "none") =>
         LET reset == lastCall'.events[1].arg
             mode == calls[Get(firebaseUnbinds, k)].mode
         IN /\ Len(lastCall'.events) = 2
            /\ lastCall'.events[2].type = EngineFor(ResetValue(mode, reset, vm[k]))]_vars

\* A rebind of a property that held an object: the teardown left an array
\* in it and the collection engine was invoked.
C19_Witness ==
  /\ LastWasRebind
  /\ LastCalledBind
  /\ calls[lastCall.events[1].id].mode = "bindAsObject"
  /\ lastCall.events[1].arg = "fnArray"
  /\ lastCall.events[2].type = "bindAsArray"

=============================================================================
